---------------------------- MODULE Spec2Model ----------------------------
(***************************************************************************)
(* A model of app.py: the static evaluator evaluate_board, the alpha-beta  *)
(* search minimax, and the click handler of run_app.                       *)
(*                                                                         *)
(* The rules engine (the python-chess Board the program calls) is modelled *)
(* on the real 8x8 board with the real piece movement, check, checkmate,   *)
(* stalemate and insufficient-material rules.  What is left out are the    *)
(* rules that the positions explored here cannot trigger: castling (no     *)
(* castling rights), the pawn double step and en passant (no pawn stands   *)
(* on its home rank), the 75-move rule and fivefold repetition (they need  *)
(* far more plies than MaxPlies allows).                                   *)
(*                                                                         *)
(* Python values: None is the empty tuple <<>>; a str is modelled by the   *)
(* tuple of its characters, so that "e2" + "e4" is concatenation; a Move   *)
(* is a record whose promotion field is absent when promotion is None.     *)
(***************************************************************************)
EXTENDS Integers, Sequences, FiniteSets, TLC

None == <<>>

WHITE == TRUE
BLACK == FALSE

PAWN   == "PAWN"
KNIGHT == "KNIGHT"
BISHOP == "BISHOP"
ROOK   == "ROOK"
QUEEN  == "QUEEN"
KING   == "KING"

\* PIECE_VALUES, and the order in which PIECE_VALUES.items() yields its keys.
PIECE_VALUES ==
    [PAWN |-> 1, KNIGHT |-> 3, BISHOP |-> 3, ROOK |-> 5, QUEEN |-> 9, KING |-> 0]

PIECE_TYPES == <<PAWN, KNIGHT, BISHOP, ROOK, QUEEN, KING>>

\* float('inf'): an integer above every score the evaluator can return
\* (|score| <= 9999), so that it orders against scores as float('inf') does.
inf == 1000000

---------------------------------------------------------------------------
(* Board geometry: chess.square, chess.square_name, chess.parse_square.    *)

FILE_NAMES == <<"a", "b", "c", "d", "e", "f", "g", "h">>
RANK_NAMES == <<"1", "2", "3", "4", "5", "6", "7", "8">>

Squares == 0..63

square(file, rank) == rank * 8 + file
square_file(s) == s % 8
square_rank(s) == s \div 8

square_name(s) == <<FILE_NAMES[square_file(s) + 1], RANK_NAMES[square_rank(s) + 1]>>

\* chess.parse_square: the index of the name in SQUARE_NAMES.
parse_square(name) == CHOOSE s \in Squares : square_name(s) = name

Abs(x) == IF x < 0 THEN -x ELSE x
Max(a, b) == IF a >= b THEN a ELSE b
Min(a, b) == IF a <= b THEN a ELSE b
Sign(x) == IF x < 0 THEN -1 ELSE IF x > 0 THEN 1 ELSE 0

FileDist(s, t) == Abs(square_file(s) - square_file(t))
RankDist(s, t) == Abs(square_rank(s) - square_rank(t))

\* A table is written f @@ <<>>, which is f, so that TLC computes it once.
KingAttacks ==
    [s \in Squares |->
        {t \in Squares : t # s /\ FileDist(s, t) <= 1 /\ RankDist(s, t) <= 1}] @@ <<>>

KnightAttacks ==
    [s \in Squares |->
        {t \in Squares : {FileDist(s, t), RankDist(s, t)} = {1, 2}}] @@ <<>>

RookLines ==
    [s \in Squares |->
        {t \in Squares : t # s /\ (FileDist(s, t) = 0 \/ RankDist(s, t) = 0)}] @@ <<>>

BishopLines ==
    [s \in Squares |->
        {t \in Squares : t # s /\ FileDist(s, t) = RankDist(s, t)}] @@ <<>>

\* The squares strictly between two squares of one rank, file or diagonal.
Between ==
    [s \in Squares |-> [t \in Squares |->
        LET df == Sign(square_file(t) - square_file(s))
            dr == Sign(square_rank(t) - square_rank(s))
            n  == Max(FileDist(s, t), RankDist(s, t))
        IN  {square(square_file(s) + k * df, square_rank(s) + k * dr) : k \in 1..(n - 1)}]
        @@ <<>>] @@ <<>>

\* The squares a pawn of the colour attacks from s.
PawnAttacks ==
    [c \in BOOLEAN |-> [s \in Squares |->
        {t \in Squares : FileDist(s, t) = 1
                         /\ square_rank(t) - square_rank(s) = (IF c THEN 1 ELSE -1)}]
        @@ <<>>] @@ <<>>

\* The square in front of a pawn of the colour standing on s.
PawnAdvance ==
    [c \in BOOLEAN |-> [s \in Squares |->
        {t \in Squares : FileDist(s, t) = 0
                         /\ square_rank(t) - square_rank(s) = (IF c THEN 1 ELSE -1)}]
        @@ <<>>] @@ <<>>

\* BB_LIGHT_SQUARES / BB_DARK_SQUARES
IsLight(s) == (square_file(s) + square_rank(s)) % 2 = 1

---------------------------------------------------------------------------
(* Pieces and positions (chess.Piece, chess.Board).                        *)

Piece(piece_type, color) == [piece_type |-> piece_type, color |-> color]

\* A layout maps the occupied squares to their pieces (Board.piece_map).
Empty(ps, s) == s \notin DOMAIN ps

\* Board.piece_at
piece_at(state, s) == IF Empty(state.pieces, s) THEN None ELSE state.pieces[s]

\* Board.pieces(piece_type, color): the squares holding such a piece.
pieces(state, piece_type, color) ==
    {s \in DOMAIN state.pieces : state.pieces[s] = Piece(piece_type, color)}

Occupied(ps, color) == {s \in DOMAIN ps : ps[s].color = color}

\* Whether the piece standing on s attacks t, on the layout ps.
Attacks(ps, s, t) ==
    LET p == ps[s]
        clear == \A m \in Between[s][t] : Empty(ps, m)
    IN  CASE p.piece_type = PAWN   -> t \in PawnAttacks[p.color][s]
          [] p.piece_type = KNIGHT -> t \in KnightAttacks[s]
          [] p.piece_type = KING   -> t \in KingAttacks[s]
          [] p.piece_type = ROOK   -> t \in RookLines[s] /\ clear
          [] p.piece_type = BISHOP -> t \in BishopLines[s] /\ clear
          [] p.piece_type = QUEEN  -> (t \in RookLines[s] \/ t \in BishopLines[s]) /\ clear

\* Board.is_attacked_by(color, t)
IsAttackedBy(ps, color, t) == \E s \in Occupied(ps, color) : Attacks(ps, s, t)

KingSquare(ps, color) == CHOOSE s \in DOMAIN ps : ps[s] = Piece(KING, color)

\* Board.is_check: the king of the side to move is attacked.
is_check(state) == IsAttackedBy(state.pieces, ~state.turn, KingSquare(state.pieces, state.turn))

---------------------------------------------------------------------------
(* Moves (chess.Move).                                                     *)

Move(from_square, to_square) == [from_square |-> from_square, to_square |-> to_square]

PromotionMove(from_square, to_square, promotion) ==
    [from_square |-> from_square, to_square |-> to_square, promotion |-> promotion]

HasPromotion(move) == "promotion" \in DOMAIN move

BackRank(color) == IF color THEN 7 ELSE 0

\* The layout after the move: the piece leaves from_square and it, or the
\* piece it promotes to, stands on to_square (a capture replaces).
Moved(ps, move) ==
    LET p == ps[move.from_square]
        q == IF HasPromotion(move) THEN Piece(move.promotion, p.color) ELSE p
    IN  [s \in (DOMAIN ps \ {move.from_square}) \cup {move.to_square} |->
            IF s = move.to_square THEN q ELSE ps[s]] @@ <<>>

\* Board.is_pseudo_legal
is_pseudo_legal(state, move) ==
    LET ps == state.pieces
        f  == move.from_square
        t  == move.to_square
        p  == ps[f]
    IN  /\ ~Empty(ps, f)
        /\ p.color = state.turn
        /\ (Empty(ps, t) \/ ps[t].color # state.turn)
        /\ IF p.piece_type = PAWN
           THEN /\ HasPromotion(move) <=> square_rank(t) = BackRank(p.color)
                /\ HasPromotion(move) => move.promotion \in {QUEEN, ROOK, BISHOP, KNIGHT}
                /\ \/ t \in PawnAttacks[p.color][f] /\ ~Empty(ps, t)
                   \/ t \in PawnAdvance[p.color][f] /\ Empty(ps, t)
           ELSE ~HasPromotion(move) /\ Attacks(ps, f, t)

\* Board.is_into_check: the move leaves the mover's king attacked.
is_into_check(state, move) ==
    LET after == Moved(state.pieces, move)
    IN  IsAttackedBy(after, ~state.turn, KingSquare(after, state.turn))

\* Board.is_legal, which is what `move in board.legal_moves` asks.
is_legal(state, move) == is_pseudo_legal(state, move) /\ ~is_into_check(state, move)

\* The squares the piece on f may move to by the way it moves alone.
Targets(ps, f) ==
    LET p == ps[f]
    IN  CASE p.piece_type = PAWN   -> PawnAttacks[p.color][f] \cup PawnAdvance[p.color][f]
          [] p.piece_type = KNIGHT -> KnightAttacks[f]
          [] p.piece_type = KING   -> KingAttacks[f]
          [] p.piece_type = ROOK   -> RookLines[f]
          [] p.piece_type = BISHOP -> BishopLines[f]
          [] p.piece_type = QUEEN  -> RookLines[f] \cup BishopLines[f]

\* The moves of the piece on f to t: one, or the four promotions.
MovesTo(ps, f, t) ==
    IF ps[f].piece_type = PAWN /\ square_rank(t) = BackRank(ps[f].color)
    THEN {PromotionMove(f, t, k) : k \in {QUEEN, ROOK, BISHOP, KNIGHT}}
    ELSE {Move(f, t)}

\* The legal moves, as a set.
LegalMoveSet(state) ==
    UNION { UNION { {m \in MovesTo(state.pieces, f, t) : is_legal(state, m)}
                    : t \in Targets(state.pieces, f) }
            : f \in Occupied(state.pieces, state.turn) }

\* any(board.generate_legal_moves())
HasLegalMove(state) ==
    \E f \in Occupied(state.pieces, state.turn) :
        \E t \in Targets(state.pieces, f) :
            \E m \in MovesTo(state.pieces, f, t) : is_legal(state, m)

\* The place of a move in the generator's enumeration: the pieces other
\* than pawns first (the king's evasions first of all when in check), then
\* the pawn captures, then the pawn advances; within a group by descending
\* from_square, then descending to_square (scan_reversed), a promotion as
\* queen, rook, bishop, knight.
MoveKey(state, check, move) ==
    LET p == state.pieces[move.from_square]
        group ==
            IF p.piece_type = PAWN
            THEN (IF square_file(move.from_square) # square_file(move.to_square) THEN 2 ELSE 3)
            ELSE (IF check /\ p.piece_type # KING THEN 1 ELSE 0)
        promo ==
            IF ~HasPromotion(move) THEN 0
            ELSE CASE move.promotion = QUEEN  -> 0
                   [] move.promotion = ROOK   -> 1
                   [] move.promotion = BISHOP -> 2
                   [] move.promotion = KNIGHT -> 3
    IN  ((group * 64 + (63 - move.from_square)) * 64 + (63 - move.to_square)) * 4 + promo

RECURSIVE Ordered(_, _)
\* The moves of a set, by ascending key.
Ordered(key, moves) ==
    IF moves = {} THEN <<>>
    ELSE LET first == CHOOSE m \in moves : \A n \in moves : key[m] <= key[n]
         IN  <<first>> \o Ordered(key, moves \ {first})

\* Board.legal_moves, in the order the generator yields them.
legal_moves(state) ==
    LET moves == LegalMoveSet(state)
        check == is_check(state)
        key == [m \in moves |-> MoveKey(state, check, m)] @@ <<>>
    IN  Ordered(key, moves)

\* Board.is_checkmate
is_checkmate(state) == is_check(state) /\ ~HasLegalMove(state)

\* Board.is_stalemate
is_stalemate(state) == ~is_check(state) /\ ~HasLegalMove(state)

\* Board.has_insufficient_material(color)
has_insufficient_material(state, color) ==
    LET ps    == state.pieces
        own   == Occupied(ps, color)
        other == Occupied(ps, ~color)
        kind(K) == {s \in DOMAIN ps : ps[s].piece_type \in K}
        bishops == kind({BISHOP})
    IN  IF own \cap kind({PAWN, ROOK, QUEEN}) # {} THEN FALSE
        ELSE IF own \cap kind({KNIGHT}) # {}
             THEN Cardinality(own) <= 2 /\ other \ kind({KING, QUEEN}) = {}
        ELSE IF own \cap bishops # {}
             THEN /\ (\A s \in bishops : IsLight(s)) \/ (\A s \in bishops : ~IsLight(s))
                  /\ kind({PAWN, KNIGHT}) = {}
        ELSE TRUE

\* Board.is_insufficient_material
is_insufficient_material(state) ==
    has_insufficient_material(state, WHITE) /\ has_insufficient_material(state, BLACK)

\* Board.is_game_over: checkmate, insufficient material, or no legal move.
is_game_over(state) ==
    is_checkmate(state) \/ is_insufficient_material(state) \/ ~HasLegalMove(state)

\* Board.push: remember the position, make the move, pass the turn.
push(state, move) ==
    [state EXCEPT !.stack = Append(@, [pieces |-> state.pieces, turn |-> state.turn]),
                  !.move_stack = Append(@, move),
                  !.pieces = Moved(@, move),
                  !.turn = ~@]

\* Board.pop: restore the position remembered by the last push.
pop(state) ==
    LET n == Len(state.stack)
    IN  [state EXCEPT !.pieces = state.stack[n].pieces,
                      !.turn = state.stack[n].turn,
                      !.stack = SubSeq(@, 1, n - 1),
                      !.move_stack = SubSeq(@, 1, n - 1)]

---------------------------------------------------------------------------
(* evaluate_board and minimax.  The position carries a field `fault`: when *)
(* armed, its fuel is the number of evaluations that still succeed before  *)
(* one raises.  It is how an error raised inside the search is injected.   *)
(* A call of minimax is modelled by the record of its outcome: the         *)
(* returned (score, best_move) or raised = TRUE, the shared position as    *)
(* the call leaves it, and the numbers of pushes and pops it executed.     *)

NoFault == [armed |-> FALSE, fuel |-> 0]

FaultAfter(fuel) == [armed |-> TRUE, fuel |-> fuel]

RECURSIVE Material(_, _)
\* The loop over PIECE_VALUES.items(), from its i-th item on.
Material(state, i) ==
    IF i > Len(PIECE_TYPES) THEN 0
    ELSE LET piece_type == PIECE_TYPES[i]
             value == PIECE_VALUES[piece_type]
         IN  Cardinality(pieces(state, piece_type, WHITE)) * value
             - Cardinality(pieces(state, piece_type, BLACK)) * value
             + Material(state, i + 1)

\* evaluate_board with the two sentinels exchanged.
evaluate_board_Flipped(state) ==
    IF is_checkmate(state) THEN (IF state.turn THEN 9999 ELSE -9999)
    ELSE IF is_stalemate(state) THEN 0
    ELSE Material(state, 1)

\* evaluate_board without the test for stalemate.
evaluate_board_NoStalemate(state) ==
    IF is_checkmate(state) THEN (IF state.turn THEN -9999 ELSE 9999)
    ELSE Material(state, 1)

evaluate_board(state) ==
    IF is_checkmate(state) THEN (IF state.turn THEN -9999 ELSE 9999)
    ELSE IF is_stalemate(state) THEN 0
    ELSE Material(state, 1)

Returned(score, best_move, state, pushes, pops) ==
    [raised |-> FALSE, score |-> score, best_move |-> best_move,
     state |-> state, pushes |-> pushes, pops |-> pops]

Raised(state, pushes, pops) ==
    [raised |-> TRUE, score |-> None, best_move |-> None,
     state |-> state, pushes |-> pushes, pops |-> pops]

\* `return evaluate_board(state), None`, or the error the evaluation raises.
Leaf(state) ==
    IF state.fault.armed /\ state.fault.fuel = 0 THEN Raised(state, 0, 0)
    ELSE Returned(evaluate_board(state), None,
                  [state EXCEPT !.fault.fuel = IF state.fault.armed THEN @ - 1 ELSE @],
                  0, 0)

RECURSIVE minimax(_, _, _, _, _)
RECURSIVE MaxLoop(_, _, _, _, _, _, _, _, _, _)
RECURSIVE MinLoop(_, _, _, _, _, _, _, _, _, _)

\* MaxLoop with the cutoff tested before the move's score is recorded.
MaxLoop_BreakFirst(moves, i, state, depth, alpha, beta, max_eval, best_move, pushes, pops) ==
    IF i > Len(moves) THEN Returned(max_eval, best_move, state, pushes, pops)
    ELSE LET move == moves[i]
             r == minimax(push(state, move), depth - 1, alpha, beta, FALSE)
         IN  IF r.raised THEN Raised(r.state, pushes + 1 + r.pushes, pops + r.pops)
             ELSE LET popped == pop(r.state)
                      eval_score == r.score
                      better == eval_score > max_eval
                      new_max == IF better THEN eval_score ELSE max_eval
                      new_best == IF better THEN move ELSE best_move
                      new_alpha == Max(alpha, eval_score)
                      n_push == pushes + 1 + r.pushes
                      n_pop == pops + 1 + r.pops
                  IN  IF beta <= new_alpha
                      THEN Returned(max_eval, best_move, popped, n_push, n_pop)
                      ELSE MaxLoop(moves, i + 1, popped, depth, new_alpha, beta,
                                   new_max, new_best, n_push, n_pop)

\* MaxLoop with `>=` for `>`: among equal scores the last move is kept.
MaxLoop_KeepLast(moves, i, state, depth, alpha, beta, max_eval, best_move, pushes, pops) ==
    IF i > Len(moves) THEN Returned(max_eval, best_move, state, pushes, pops)
    ELSE LET move == moves[i]
             r == minimax(push(state, move), depth - 1, alpha, beta, FALSE)
         IN  IF r.raised THEN Raised(r.state, pushes + 1 + r.pushes, pops + r.pops)
             ELSE LET popped == pop(r.state)
                      eval_score == r.score
                      better == eval_score >= max_eval
                      new_max == IF better THEN eval_score ELSE max_eval
                      new_best == IF better THEN move ELSE best_move
                      new_alpha == Max(alpha, eval_score)
                      n_push == pushes + 1 + r.pushes
                      n_pop == pops + 1 + r.pops
                  IN  IF beta <= new_alpha
                      THEN Returned(new_max, new_best, popped, n_push, n_pop)
                      ELSE MaxLoop(moves, i + 1, popped, depth, new_alpha, beta,
                                   new_max, new_best, n_push, n_pop)

\* The maximizing branch's `for move in state.legal_moves` from the i-th
\* move on, with the locals alpha, max_eval and best_move as they stand.
MaxLoop(moves, i, state, depth, alpha, beta, max_eval, best_move, pushes, pops) ==
    IF i > Len(moves) THEN Returned(max_eval, best_move, state, pushes, pops)
    ELSE LET move == moves[i]
             r == minimax(push(state, move), depth - 1, alpha, beta, FALSE)
         IN  IF r.raised THEN Raised(r.state, pushes + 1 + r.pushes, pops + r.pops)
             ELSE LET popped == pop(r.state)
                      eval_score == r.score
                      better == eval_score > max_eval
                      new_max == IF better THEN eval_score ELSE max_eval
                      new_best == IF better THEN move ELSE best_move
                      new_alpha == Max(alpha, eval_score)
                      n_push == pushes + 1 + r.pushes
                      n_pop == pops + 1 + r.pops
                  IN  IF beta <= new_alpha
                      THEN Returned(new_max, new_best, popped, n_push, n_pop)
                      ELSE MaxLoop(moves, i + 1, popped, depth, new_alpha, beta,
                                   new_max, new_best, n_push, n_pop)

\* MinLoop with the cutoff taken before the move is popped.
MinLoop_BreakBeforePop(moves, i, state, depth, alpha, beta, min_eval, best_move, pushes, pops) ==
    IF i > Len(moves) THEN Returned(min_eval, best_move, state, pushes, pops)
    ELSE LET move == moves[i]
             r == minimax(push(state, move), depth - 1, alpha, beta, TRUE)
         IN  IF r.raised THEN Raised(r.state, pushes + 1 + r.pushes, pops + r.pops)
             ELSE LET popped == pop(r.state)
                      eval_score == r.score
                      better == eval_score < min_eval
                      new_min == IF better THEN eval_score ELSE min_eval
                      new_best == IF better THEN move ELSE best_move
                      new_beta == Min(beta, eval_score)
                      n_push == pushes + 1 + r.pushes
                      n_pop == pops + 1 + r.pops
                  IN  IF new_beta <= alpha
                      THEN Returned(new_min, new_best, r.state, n_push, pops + r.pops)
                      ELSE MinLoop(moves, i + 1, popped, depth, alpha, new_beta,
                                   new_min, new_best, n_push, n_pop)

\* The minimizing branch's loop, the mirror of MaxLoop.
MinLoop(moves, i, state, depth, alpha, beta, min_eval, best_move, pushes, pops) ==
    IF i > Len(moves) THEN Returned(min_eval, best_move, state, pushes, pops)
    ELSE LET move == moves[i]
             r == minimax(push(state, move), depth - 1, alpha, beta, TRUE)
         IN  IF r.raised THEN Raised(r.state, pushes + 1 + r.pushes, pops + r.pops)
             ELSE LET popped == pop(r.state)
                      eval_score == r.score
                      better == eval_score < min_eval
                      new_min == IF better THEN eval_score ELSE min_eval
                      new_best == IF better THEN move ELSE best_move
                      new_beta == Min(beta, eval_score)
                      n_push == pushes + 1 + r.pushes
                      n_pop == pops + 1 + r.pops
                  IN  IF new_beta <= alpha
                      THEN Returned(new_min, new_best, popped, n_push, n_pop)
                      ELSE MinLoop(moves, i + 1, popped, depth, alpha, new_beta,
                                   new_min, new_best, n_push, n_pop)

\* minimax whose base case tests the depth alone.
minimax_DepthOnly(state, depth, alpha, beta, maximizing_player) ==
    IF depth = 0 THEN Leaf(state)
    ELSE IF maximizing_player
         THEN MaxLoop(legal_moves(state), 1, state, depth, alpha, beta, -inf, None, 0, 0)
         ELSE MinLoop(legal_moves(state), 1, state, depth, alpha, beta, inf, None, 0, 0)

\* minimax whose best score starts at 0 in both branches.
minimax_ZeroInit(state, depth, alpha, beta, maximizing_player) ==
    IF depth = 0 \/ is_game_over(state) THEN Leaf(state)
    ELSE IF maximizing_player
         THEN MaxLoop(legal_moves(state), 1, state, depth, alpha, beta, 0, None, 0, 0)
         ELSE MinLoop(legal_moves(state), 1, state, depth, alpha, beta, 0, None, 0, 0)

minimax(state, depth, alpha, beta, maximizing_player) ==
    IF depth = 0 \/ is_game_over(state) THEN Leaf(state)
    ELSE IF maximizing_player
         THEN MaxLoop(legal_moves(state), 1, state, depth, alpha, beta, -inf, None, 0, 0)
         ELSE MinLoop(legal_moves(state), 1, state, depth, alpha, beta, inf, None, 0, 0)

---------------------------------------------------------------------------
(* The positions a game is started from.  chess.Board() sets up the        *)
(* standard opening position; the model starts a game from one of a few    *)
(* positions with a handful of pieces instead, chosen so that checkmate,   *)
(* stalemate, a draw by insufficient material, captures and promotion are  *)
(* all within reach of the first moves.                                    *)

At(name) == parse_square(name)

Setup(placement, turn) ==
    [pieces |-> [s \in {At(x[1]) : x \in placement} |->
                    (CHOOSE x \in placement : At(x[1]) = s)[2]],
     turn |-> turn, move_stack |-> <<>>, stack |-> <<>>, fault |-> NoFault]

StartBoards ==
    { \* White mates by promoting on a8 and stalemates with f7.
      Setup({<<<<"h", "6">>, Piece(KING, WHITE)>>, <<<<"a", "7">>, Piece(PAWN, WHITE)>>,
             <<<<"f", "6">>, Piece(PAWN, WHITE)>>, <<<<"h", "8">>, Piece(KING, BLACK)>>}, WHITE),
      \* White's pawn promotes on b8, where Black's king takes it; bare kings
      \* are left, a draw by insufficient material.
      Setup({<<<<"a", "1">>, Piece(KING, WHITE)>>, <<<<"b", "7">>, Piece(PAWN, WHITE)>>,
             <<<<"c", "7">>, Piece(KING, BLACK)>>}, WHITE),
      \* Equal material, the pawns attacking each other.
      Setup({<<<<"a", "1">>, Piece(KING, WHITE)>>, <<<<"b", "1">>, Piece(KNIGHT, WHITE)>>,
             <<<<"d", "4">>, Piece(PAWN, WHITE)>>,
             <<<<"h", "8">>, Piece(KING, BLACK)>>, <<<<"g", "8">>, Piece(KNIGHT, BLACK)>>,
             <<<<"e", "5">>, Piece(PAWN, BLACK)>>}, WHITE),
      \* Black mates White's cornered king after its only move.
      Setup({<<<<"a", "1">>, Piece(KING, WHITE)>>,
             <<<<"b", "3">>, Piece(KING, BLACK)>>, <<<<"h", "8">>, Piece(ROOK, BLACK)>>}, WHITE) }

\* The positions a search is tried on are reached from these: the starting
\* positions, and one with Black to move (Black mates with Rh1).
SearchBoards ==
    StartBoards \cup
    { Setup({<<<<"b", "1">>, Piece(KING, WHITE)>>,
             <<<<"b", "3">>, Piece(KING, BLACK)>>, <<<<"h", "8">>, Piece(ROOK, BLACK)>>}, BLACK) }

---------------------------------------------------------------------------
VARIABLES board, selected_square, status, event, call, ret

vars == <<board, selected_square, status, event, call, ret>>

\* The longest move stack a game is played to.
MaxPlies == 3

\* The plies played before a search is run on the position.
MaxPlay == 1

\* depth=2 in run_app's call of minimax.
SearchDepth == 2

---------------------------------------------------------------------------
(* run_app: one run of the script handles one event, the restart button or *)
(* the button of one square.                                               *)

SquareNames == {square_name(s) : s \in Squares}

\* chess.PIECE_SYMBOLS
PIECE_SYMBOLS ==
    [p |-> PAWN, n |-> KNIGHT, b |-> BISHOP, r |-> ROOK, q |-> QUEEN, k |-> KING]

InvalidMoveError == [error |-> "InvalidMoveError"]

\* chess.Move.from_uci, for a uci of four or five characters: the two
\* squares and the promotion letter are parsed, and a move from a square to
\* itself is refused (python-chess 1.10 and later).
from_uci(uci) ==
    LET from_square == parse_square(SubSeq(uci, 1, 2))
        to_square == parse_square(SubSeq(uci, 3, 4))
    IN  IF from_square = to_square THEN InvalidMoveError
        ELSE IF Len(uci) = 5
             THEN PromotionMove(from_square, to_square, PIECE_SYMBOLS[uci[5]])
             ELSE Move(from_square, to_square)

\* bool(move): None and the null move are falsy.
Truthy(move) ==
    /\ move # None
    /\ (move.from_square # 0 \/ move.to_square # 0 \/ HasPromotion(move))

Init ==
    /\ board \in StartBoards
    /\ selected_square = None
    /\ status = None
    /\ event = None
    /\ call = None
    /\ ret = None

\* The button "重新开始一局".
Restart ==
    /\ board' \in StartBoards
    /\ selected_square' = None
    /\ status' = None
    /\ event' = [type |-> "restart"]
    /\ UNCHANGED <<call, ret>>

\* Execute without the computer's answer.
Execute_NoReply(move) ==
    /\ selected_square' = None
    /\ board' = push(board, move)
    /\ status' = "success"

\* The player's move and the computer's answer (lines 157 to 168).
Execute(move) ==
    LET pushed == push(board, move)
        r == minimax(pushed, SearchDepth, -inf, inf, pushed.turn)
    IN  /\ selected_square' = None
        /\ IF is_game_over(pushed)
           THEN board' = pushed /\ status' = "success"
           ELSE IF r.raised
                THEN board' = r.state /\ status' = "exception"
                ELSE IF Truthy(r.best_move)
                     THEN board' = push(r.state, r.best_move) /\ status' = "info"
                     ELSE board' = r.state /\ status' = "success"

\* The first click (lines 138 to 143): select a piece of the player's.
FirstClick(clicked_square) ==
    LET clicked_piece == piece_at(board, parse_square(clicked_square))
    IN  IF clicked_piece # None /\ clicked_piece.color = WHITE /\ board.turn
        THEN /\ selected_square' = clicked_square
             /\ status' = "info"
             /\ board' = board
        ELSE /\ status' = "warning"
             /\ UNCHANGED <<board, selected_square>>

\* SecondClick with the move pushed before it is found illegal, and left.
SecondClick_PushFirst(clicked_square) ==
    LET move_uci == selected_square \o clicked_square
        move == from_uci(move_uci)
        retry == IF is_legal(board, move)
                 THEN move
                 ELSE from_uci(move_uci \o <<"q">>)
    IN  IF move = InvalidMoveError
        THEN \/ /\ status' = "exception"
                /\ UNCHANGED <<board, selected_square>>
             \/ /\ status' = "error"
                /\ selected_square' = None
                /\ board' = board
        ELSE IF is_legal(board, retry)
             THEN Execute(retry)
             ELSE /\ status' = "error"
                  /\ selected_square' = None
                  /\ board' = IF is_pseudo_legal(board, move)
                               THEN push(board, move)
                               ELSE board

\* The second click (lines 144 to 171): the move from the selected square
\* to the clicked one.
SecondClick(clicked_square) ==
    LET move_uci == selected_square \o clicked_square
        move == from_uci(move_uci)
        retry == IF is_legal(board, move)
                 THEN move
                 ELSE from_uci(move_uci \o <<"q">>)
    IN  IF move = InvalidMoveError
        THEN \* Either from_uci raises, outside the try, and the run ends
             \* here; or, with a python-chess older than 1.10, it returns the
             \* move, which is not legal, and neither is its promotion.
             \/ /\ status' = "exception"
                /\ UNCHANGED <<board, selected_square>>
             \/ /\ status' = "error"
                /\ selected_square' = None
                /\ board' = board
        ELSE IF is_legal(board, retry)
             THEN Execute(retry)
             ELSE /\ status' = "error"
                  /\ selected_square' = None
                  /\ board' = board

\* The button of a square (lines 134 to 171).
Click(clicked_square) ==
    /\ Len(board.move_stack) < MaxPlies
    /\ event' = [type |-> "click", square |-> clicked_square]
    /\ UNCHANGED <<call, ret>>
    /\ IF selected_square = None
       THEN FirstClick(clicked_square)
       ELSE SecondClick(clicked_square)

Next ==
    \/ Restart
    \/ \E clicked_square \in SquareNames : Click(clicked_square)

Spec == Init /\ [][Next]_vars

---------------------------------------------------------------------------
(* Properties of the driver, checked under Spec.                           *)

\* The move the driver makes of a second click on `clicked_square`, or None
\* when it makes none: the move between the two squares if that is legal,
\* else its promotion to a queen if that is legal.
Proposed(clicked_square) ==
    LET from_square == parse_square(selected_square)
        to_square == parse_square(clicked_square)
    IN  IF from_square = to_square THEN None
        ELSE IF Move(from_square, to_square) \in LegalMoveSet(board)
             THEN Move(from_square, to_square)
        ELSE IF PromotionMove(from_square, to_square, QUEEN) \in LegalMoveSet(board)
             THEN PromotionMove(from_square, to_square, QUEEN)
        ELSE None

\* A click that is to leave the position alone: a second click whose move is
\* malformed or not legal, its queen promotion neither, and a first click
\* that selects no White piece on White's turn.
Refused(clicked_square) ==
    IF selected_square # None THEN Proposed(clicked_square) = None
    ELSE LET s == parse_square(clicked_square)
         IN  ~(s \in DOMAIN board.pieces /\ board.pieces[s].color = WHITE /\ board.turn = WHITE)

\* The step handles a click on `clicked_square`.
Clicked(clicked_square) == event' = [type |-> "click", square |-> clicked_square]

\* C5: a second click proposing a malformed or illegal move (the queen
\* promotion illegal too) and a first click that selects no White piece on
\* White's turn leave the position as it is: nothing is pushed and no reply
\* is made.
C5_RefusedClick ==
    [][\A clicked_square \in SquareNames :
           (Clicked(clicked_square) /\ Refused(clicked_square)) => board' = board]_vars

\* An illegal move was refused in mid-game.
C5_Witness ==
    /\ event # None /\ event.type = "click"
    /\ status = "error"
    /\ board.move_stack # <<>>

C10_Turn == board.turn = WHITE \/ is_game_over(board)

\* The position after the player's move and the opponent's answer to it.
Answered(move) ==
    LET pushed == push(board, move)
        reply == minimax(pushed, 2, -inf, inf, pushed.turn).best_move
    IN  IF is_game_over(pushed) THEN pushed
        ELSE IF reply \in LegalMoveSet(pushed) THEN push(pushed, reply)
        ELSE None

C10_Reply ==
    \A clicked_square \in SquareNames :
        (Clicked(clicked_square) /\ selected_square # None /\ Proposed(clicked_square) # None)
            => board' = Answered(Proposed(clicked_square))

\* C10: after every handled event it is White's turn or the game is over;
\* and an accepted move of the player's is followed in the same step by one
\* move of the opponent's, the one minimax returns at depth 2 under the flag
\* of the side to move, unless the game is over after the player's move,
\* when none is made.
C10_TurnAlternation == [](C10_Turn) /\ [][C10_Reply]_vars

\* A second move of the player's ended the game by checkmate, the first
\* one having been answered.
C10_Witness ==
    /\ event # None /\ event.type = "click"
    /\ Len(board.move_stack) = 3
    /\ board.turn = BLACK
    /\ is_checkmate(board)

---------------------------------------------------------------------------
(* The search and the evaluator on their own: a position is reached by a   *)
(* few moves of a game and minimax or evaluate_board is called on it.      *)

SearchInit ==
    /\ board \in SearchBoards
    /\ selected_square = None
    /\ status = None
    /\ event = None
    /\ call = None
    /\ ret = None

\* One more move of the game.
Play(move) ==
    /\ call = None
    /\ Len(board.move_stack) < MaxPlay
    /\ board' = push(board, move)
    /\ UNCHANGED <<selected_square, status, event, call, ret>>

\* evaluate_board(board)
Evaluate ==
    /\ call = None
    /\ call' = [op |-> "evaluate_board", state |-> board]
    /\ ret' = [score |-> evaluate_board(board)]
    /\ UNCHANGED <<board, selected_square, status, event>>

\* minimax(board, depth, alpha, beta, maximizing_player) under the given
\* fault; the shared position is left as the call leaves it.
RunSearch(depth, alpha, beta, maximizing_player, fault) ==
    LET state == [board EXCEPT !.fault = fault]
        r == minimax(state, depth, alpha, beta, maximizing_player)
    IN  /\ call = None
        /\ call' = [op |-> "minimax", state |-> state, depth |-> depth, alpha |-> alpha,
                    beta |-> beta, maximizing_player |-> maximizing_player]
        /\ ret' = r
        /\ board' = r.state
        /\ UNCHANGED <<selected_square, status, event>>

\* The bounds of the windows tried.
WindowBounds == {-inf, 0, inf}

\* The most evaluations that succeed before the injected error.
MaxFuel == 1

SearchNext ==
    \/ \E move \in LegalMoveSet(board) : Play(move)
    \/ Evaluate
    \/ \E depth \in 0..SearchDepth, alpha \in WindowBounds, beta \in WindowBounds,
          maximizing_player \in BOOLEAN :
          RunSearch(depth, alpha, beta, maximizing_player, NoFault)
    \/ \E depth \in 0..SearchDepth, maximizing_player \in BOOLEAN, fuel \in 0..MaxFuel :
          RunSearch(depth, -inf, inf, maximizing_player, FaultAfter(fuel))

SearchSpec == SearchInit /\ [][SearchNext]_vars

---------------------------------------------------------------------------
(* Properties of the search and the evaluator, checked under SearchSpec.   *)

SearchCall == call # None /\ call.op = "minimax"

SearchReturned == SearchCall /\ ~ret.raised

FullWindow == call.alpha = -inf /\ call.beta = inf

\* What a caller can observe of a position: the fault is not part of it.
SamePosition(a, b) ==
    /\ a.pieces = b.pieces
    /\ a.turn = b.turn
    /\ a.move_stack = b.move_stack
    /\ a.stack = b.stack

Greatest(scores) == CHOOSE v \in scores : \A w \in scores : w <= v

Least(scores) == CHOOSE v \in scores : \A w \in scores : v <= w

RECURSIVE PlainMinimax(_, _, _)
\* The score of the game tree of the given depth with no pruning: the leaves
\* are scored by evaluate_board, the inner positions take the greatest or
\* the least score of their successors, the sides alternating.
PlainMinimax(state, depth, maximizing_player) ==
    IF depth = 0 \/ is_game_over(state) THEN evaluate_board(state)
    ELSE LET scores == {PlainMinimax(push(state, move), depth - 1, ~maximizing_player) :
                            move \in LegalMoveSet(state)}
         IN  IF maximizing_player THEN Greatest(scores) ELSE Least(scores)

RECURSIVE TreePushes(_, _)
\* The number of moves in the whole game tree of the given depth.
TreePushes(state, depth) ==
    IF depth = 0 \/ is_game_over(state) THEN 0
    ELSE LET moves == legal_moves(state)
             below == [i \in 1..Len(moves) |-> 1 + TreePushes(push(state, moves[i]), depth - 1)]
             Sum[i \in 0..Len(moves)] == IF i = 0 THEN 0 ELSE Sum[i - 1] + below[i]
         IN  Sum[Len(moves)]

\* The call cut at least one subtree off.
Pruned == ret.pushes < TreePushes(call.state, call.depth)

\* C1: called with the full window, minimax returns the score of the plain
\* unpruned minimax of the same depth over the same tree, for every depth
\* and either maximizing flag.
C1_PruningKeepsScore ==
    (SearchReturned /\ FullWindow) =>
        ret.score = PlainMinimax(call.state, call.depth, call.maximizing_player)

\* A full-window search of the full depth has cut a subtree off.
C1_Witness ==
    /\ SearchReturned /\ FullWindow
    /\ ~call.state.fault.armed
    /\ call.depth = SearchDepth
    /\ Pruned

\* C2: when minimax returns normally the shared position is the one it was
\* called on (layout, side to move, move stack, undo stack), and the call
\* popped exactly as often as it pushed, whatever the depth, the window and
\* the flag.
C2_PositionRestored ==
    SearchReturned =>
        /\ SamePosition(board, call.state)
        /\ SamePosition(ret.state, call.state)
        /\ ret.pushes = ret.pops

\* A search below a position in mid-game, with a narrowed window, ended its
\* loop by a cutoff.
C2_Witness ==
    /\ SearchReturned /\ ~FullWindow
    /\ call.state.move_stack # <<>>
    /\ call.depth = SearchDepth
    /\ ret.pushes > 0
    /\ Pruned

\* C3: at depth 0 or on a position where the game is over, minimax returns
\* (evaluate_board(position), None) and pushes nothing, for any window and
\* flag: the sentinel on a checkmate, 0 on a stalemate; and a position with
\* no legal move is one where the game is over.
C3_BaseCase ==
    /\ SearchCall => (LegalMoveSet(call.state) = {} => is_game_over(call.state))
    /\ (SearchReturned /\ (call.depth = 0 \/ is_game_over(call.state))) =>
           /\ ret.score = evaluate_board(call.state)
           /\ ret.best_move = None
           /\ ret.pushes = 0
           /\ SamePosition(board, call.state)
           /\ is_checkmate(call.state) =>
                  ret.score = IF call.state.turn = WHITE THEN -9999 ELSE 9999
           /\ is_stalemate(call.state) => ret.score = 0

\* A checkmated position was searched to the full depth with a narrowed
\* window.
C3_Witness ==
    /\ SearchReturned /\ ~FullWindow
    /\ call.depth = SearchDepth
    /\ is_checkmate(call.state)

Count(state, piece_type, color) ==
    Cardinality({s \in DOMAIN state.pieces : state.pieces[s] = Piece(piece_type, color)})

Balance(state, piece_type) == Count(state, piece_type, WHITE) - Count(state, piece_type, BLACK)

\* The score the evaluator is to give.
ExpectedScore(state) ==
    IF is_checkmate(state) THEN (IF state.turn = WHITE THEN -9999 ELSE 9999)
    ELSE IF is_stalemate(state) THEN 0
    ELSE Balance(state, PAWN) * 1 + Balance(state, KNIGHT) * 3 + Balance(state, BISHOP) * 3
         + Balance(state, ROOK) * 5 + Balance(state, QUEEN) * 9 + Balance(state, KING) * 0

EvaluateCall == call # None /\ call.op = "evaluate_board"

\* C4: evaluate_board gives -9999 on a checkmate with White to move, 9999 on
\* a checkmate with Black to move, 0 on a stalemate, and otherwise the
\* material balance with pawn 1, knight 3, bishop 3, rook 5, queen 9, king
\* 0; so 0 wherever the sides hold the same pieces and it is not checkmate;
\* and the position is left as it was.
C4_EvaluateBoard ==
    EvaluateCall =>
        /\ ret.score = ExpectedScore(call.state)
        /\ board = call.state
        /\ (~is_checkmate(call.state)
              /\ \A piece_type \in DOMAIN PIECE_VALUES : Balance(call.state, piece_type) = 0)
              => ret.score = 0

\* A position where White is checkmated was evaluated.
C4_Witness ==
    /\ EvaluateCall
    /\ is_checkmate(call.state)
    /\ call.state.turn = WHITE
    /\ ret.score = -9999

Searched == SearchReturned /\ FullWindow /\ call.depth >= 1 /\ ~is_game_over(call.state)

\* C6: on a position where the game is not over, a full-window search of
\* depth 1 or more returns, under either flag, a move that is not None and
\* is one of the position's legal moves, which the driver's `if ai_move`
\* lets through.
C6_MoveReturned ==
    Searched =>
        /\ ret.best_move # None
        /\ ret.best_move \in LegalMoveSet(call.state)
        /\ Truthy(ret.best_move)

\* A search under the flag of the side that is not to move returned a move.
C6_Witness ==
    /\ Searched
    /\ call.depth = SearchDepth
    /\ call.maximizing_player # call.state.turn
    /\ ret.best_move \in LegalMoveSet(call.state)

\* The unpruned scores of the position's moves, in the generator's order.
MoveScores(state, depth, maximizing_player) ==
    LET moves == legal_moves(state)
    IN  [i \in 1..Len(moves) |->
            PlainMinimax(push(state, moves[i]), depth - 1, ~maximizing_player)] @@ <<>>

\* The first move, in the generator's order, whose unpruned score is the
\* score of the position.
FirstOptimal(state, depth, maximizing_player) ==
    LET moves == legal_moves(state)
        scores == MoveScores(state, depth, maximizing_player)
        root == PlainMinimax(state, depth, maximizing_player)
        first == CHOOSE i \in 1..Len(moves) :
                     scores[i] = root /\ \A j \in 1..(i - 1) : scores[j] # root
    IN  moves[first]

\* C7: the move a full-window search of depth 1 or more returns is the
\* first, in the order of the legal-move generator, whose unpruned score one
\* ply down equals the score of the position.
C7_FirstOptimal ==
    Searched =>
        ret.best_move = FirstOptimal(call.state, call.depth, call.maximizing_player)

\* The search cut subtrees off, and a move other than the returned one has
\* the score of the position too.
C7_Witness ==
    /\ Searched
    /\ call.depth = SearchDepth
    /\ Pruned
    /\ LET moves == legal_moves(call.state)
           scores == MoveScores(call.state, call.depth, call.maximizing_player)
       IN  \E i, j \in 1..Len(moves) :
               i < j /\ moves[i] = ret.best_move /\ scores[j] = scores[i]

\* C8: when an error leaves minimax while a move is pushed, the position is
\* the one minimax was called on, its move stack as deep as at entry.
C8_PopOnEveryExit ==
    (SearchCall /\ ret.raised) =>
        /\ Len(board.move_stack) = Len(call.state.move_stack)
        /\ SamePosition(board, call.state)

NoLegalMove == SearchReturned /\ LegalMoveSet(call.state) = {}

\* C9 as stated: on a position with no legal move, minimax returns the
\* initial extremal score (-inf when maximizing, inf when minimizing) and
\* no move.
C9_ExtremalOnNoMove ==
    NoLegalMove =>
        /\ ret.score = IF call.maximizing_player THEN -inf ELSE inf
        /\ ret.best_move = None

\* C9 amended: on a position with no legal move, minimax returns through its
\* base case, whatever the depth: the evaluator's score, which is the
\* checkmate sentinel when the side to move is in check and 0 when it is
\* not, and no move; nothing is pushed.
C9_EvaluatedOnNoMove ==
    NoLegalMove =>
        /\ ret.score = IF is_check(call.state)
                       THEN (IF call.state.turn = WHITE THEN -9999 ELSE 9999)
                       ELSE 0
        /\ ret.best_move = None
        /\ ret.pushes = 0

\* A stalemate was searched to the full depth under the maximizing flag.
C9_Witness ==
    /\ NoLegalMove
    /\ call.depth = SearchDepth
    /\ call.maximizing_player
    /\ ~is_check(call.state)
    /\ ret.score = 0

===========================================================================
